---- MODULE Spec2Model ----
(***************************************************************************)
(* The tweet collector of the browser extension: the background service    *)
(* worker (src/extension/background.js) that queues captured tweets,       *)
(* flushes them to the backend in batches and requeues failed batches.     *)
(*                                                                         *)
(* A tweet is a record [id, n]: id is the tweet's rest_id, n the serial    *)
(* number of its arrival in the background context (history information    *)
(* that the code does not keep; it makes "enqueued earlier" expressible).  *)
(*                                                                         *)
(* One action is one run-to-completion step of the single-threaded         *)
(* background context: a message handler, a timer callback, the storage    *)
(* callback, or the continuation of sendBatch after one of its awaits.     *)
(*                                                                         *)
(* The second part is the page context: the script injected into the host  *)
(* page (src/unnamed/part_010, lines 1-154), which wraps fetch and         *)
(* XMLHttpRequest and extracts tweets from the responses, and the content  *)
(* script (src/extension/content.js) that relays them to the background.   *)
(***************************************************************************)
EXTENDS Integers, Sequences, FiniteSets, TLC

VARIABLES
  tweetQueue,    \* background.js:7  the in-memory queue
  isEnabled,     \* background.js:8
  stats,         \* background.js:9  [tweetsCollected, tweetsSent, lastSentAt]
  storage,       \* chrome.storage.local: the keys isEnabled and stats
  result,        \* what chrome.storage.local.get (16) read: the keys as stored at startup
  loaded,        \* the chrome.storage.local.get callback (16-19) has run
  life,          \* history: [restarts, born]: the number of restarts so far, and the
                 \* number of tweets accepted before this lifetime began
  inflight,      \* the sendBatch calls suspended at an await
  clock,         \* the number of times new Date() has been read
  arrived,       \* history: number of tweets accepted by intake so far
  msgs,          \* history: number of TWEETS_CAPTURED messages accepted
  flushes,       \* history: number of batches sendBatch has removed
  failedBatches, \* history: batches requeued since the last flush started
  ev             \* history: the last step (other than GET_STATUS)

vars == <<tweetQueue, isEnabled, stats, storage, result, loaded, life, inflight,
          clock, arrived, msgs, flushes, failedBatches, ev>>

VARIABLES
  request,    \* the host page's call: which API, its URL argument, the response body
  pagePc,     \* where the wrapper handling that call stands
  host,       \* what the host page has been given for its call so far
  scan,       \* the walk of findTweets over the parsed body: loops under way, records found
  events,     \* the events dispatched on window, in order
  messages    \* the chrome.runtime.sendMessage calls of the content script, in order

pageVars == <<request, pagePc, host, scan, events, messages>>

allVars == <<vars, pageVars>>

-----------------------------------------------------------------------------
(* Program constants *)

BATCH_SIZE == 50

\* lastSentAt: null (background.js:12); a timestamp is a number >= 1
NULL == 0

(* Bounds of the model *)

MaxMsgs == 2
MaxFlushes == 3
MaxRestarts == 1

\* sizes of the tweet arrays a TWEETS_CAPTURED message carries
MsgSizes == {2, BATCH_SIZE}

-----------------------------------------------------------------------------
(* Helpers *)

Min(a, b) == IF a < b THEN a ELSE b

\* variant: the batch is the whole queue
TakeWhole(q) == q

\* Array.prototype.splice(0, BATCH_SIZE): the removed elements ...
TakeBatch(q) == SubSeq(q, 1, Min(Len(q), BATCH_SIZE))

\* variant: the batch is copied (slice) and stays queued while it is in flight
DropBatchKeeping(q) == q

\* ... and what is left in the array
DropBatch(q) == SubSeq(q, Min(Len(q), BATCH_SIZE) + 1, Len(q))

\* variant: a failed batch is dropped
RequeueNothing(batch, q) == q

\* tweetQueue.unshift(...batch)
Requeue(batch, q) == batch \o q

\* variant: a tweet whose id is queued already is not queued again
PushNew(q, newTweets) ==
  q \o SelectSeq(newTweets, LAMBDA t : \A i \in 1..Len(q) : q[i].id # t.id)

\* tweetQueue.push(...newTweets)
Push(q, newTweets) == q \o newTweets

\* the initial value of stats, and the value RESET_STATS assigns
ZeroStats == [tweetsCollected |-> 0, tweetsSent |-> 0, lastSentAt |-> NULL]

\* result.tweets_added || batch.length
SentIncrement(tweets_added, batch) ==
  IF tweets_added # 0 THEN tweets_added ELSE Len(batch)

\* variant: the handler does not look at the flag
AcceptsAlways(enabled) == TRUE

\* message.type === 'TWEETS_CAPTURED' && isEnabled
AcceptsTweets(enabled) == enabled

\* variant: > in place of >=
ThresholdExceeded(q) == Len(q) > BATCH_SIZE

\* tweetQueue.length >= BATCH_SIZE
ThresholdReached(q) == Len(q) >= BATCH_SIZE

\* tweetQueue.length > 0 && isEnabled
TimerShouldFlush(q, enabled) == Len(q) > 0 /\ enabled

\* the tweets of a message: k tweets with consecutive ids from first on
Tweets(first, k) == [i \in 1..k |-> [id |-> first + i - 1, n |-> arrived + i]]

\* the id a message starts with: tweets not seen before
FirstIds == {arrived + 1}

\* the numbers a success response may report as newly added for a batch
AddedChoices(batch) == {0, 1, Len(batch)}

\* new Date().toISOString() at the r-th reading of the clock: later readings
\* give later timestamps
Timestamp(r) == r

Event(op, batch, num) == [op |-> op, batch |-> batch, num |-> num]

-----------------------------------------------------------------------------
(* The state after the module body has run (background.js:7-19, 61-65):
   nothing persisted yet, the storage callback pending. *)

Init ==
  /\ tweetQueue = <<>>
  /\ isEnabled = TRUE
  /\ stats = ZeroStats
  /\ storage = [hasEnabled |-> FALSE, isEnabled |-> TRUE,
                hasStats |-> FALSE, stats |-> ZeroStats]
  /\ result = storage
  /\ loaded = FALSE
  /\ life = [restarts |-> 0, born |-> 0]
  /\ inflight = {}
  /\ clock = 0
  /\ arrived = 0
  /\ msgs = 0
  /\ flushes = 0
  /\ failedBatches = {}
  /\ ev = Event("START", <<>>, 0)

\* saveStats(): chrome.storage.local.set({ stats })
saveStats(s) == storage' = [storage EXCEPT !.hasStats = TRUE, !.stats = s]

\* sendBatch() up to its first await, called on queue q
sendBatch(q) ==
  IF Len(q) = 0
    THEN /\ tweetQueue' = q
         /\ UNCHANGED <<inflight, flushes, failedBatches>>
    ELSE /\ flushes < MaxFlushes
         /\ flushes' = flushes + 1
         /\ tweetQueue' = DropBatch(q)
         /\ inflight' = inflight \cup {[batch |-> TakeBatch(q), pc |-> "fetch"]}
         /\ failedBatches' = {}

\* chrome.storage.local.get callback.  The get is issued while the module
\* body runs, before any handler can write: storage serves the calls of a
\* context in the order issued, so the callback is given the keys as they
\* were stored at startup, whatever has been written since.
Load ==
  /\ ~loaded
  /\ loaded' = TRUE
  /\ isEnabled' = IF result.hasEnabled THEN result.isEnabled ELSE isEnabled
  /\ stats' = IF result.hasStats THEN result.stats ELSE stats
  /\ ev' = Event("LOAD", <<>>, 0)
  /\ UNCHANGED <<tweetQueue, storage, result, life, inflight, clock, arrived, msgs,
                 flushes, failedBatches>>

\* onMessage, message.type === 'TWEETS_CAPTURED'
TweetsCaptured(first, k) ==
  /\ ev' = Event("TWEETS_CAPTURED", <<>>, k)
  /\ IF AcceptsTweets(isEnabled)
       THEN /\ msgs < MaxMsgs
            /\ msgs' = msgs + 1
            /\ arrived' = arrived + k
            /\ stats' = [stats EXCEPT !.tweetsCollected = @ + k]
            /\ saveStats(stats')
            /\ IF ThresholdReached(Push(tweetQueue, Tweets(first, k)))
                 THEN sendBatch(Push(tweetQueue, Tweets(first, k)))
                 ELSE /\ tweetQueue' = Push(tweetQueue, Tweets(first, k))
                      /\ UNCHANGED <<inflight, flushes, failedBatches>>
       ELSE UNCHANGED <<tweetQueue, stats, storage, inflight, arrived, msgs,
                        flushes, failedBatches>>
  /\ UNCHANGED <<isEnabled, result, loaded, life, clock>>

\* onMessage, message.type === 'GET_STATUS': sendResponse only
GetStatus == UNCHANGED vars

\* variant: disabling also throws away what is queued
ToggleEnabledDroppingQueue(enabled) ==
  /\ isEnabled' = enabled
  /\ tweetQueue' = IF enabled THEN tweetQueue ELSE <<>>
  /\ storage' = [storage EXCEPT !.hasEnabled = TRUE, !.isEnabled = enabled]
  /\ ev' = Event("TOGGLE_ENABLED", <<>>, IF enabled THEN 1 ELSE 0)
  /\ UNCHANGED <<stats, result, loaded, life, inflight, clock, arrived, msgs, flushes,
                 failedBatches>>

\* onMessage, message.type === 'TOGGLE_ENABLED'
ToggleEnabled(enabled) ==
  /\ isEnabled' = enabled
  /\ storage' = [storage EXCEPT !.hasEnabled = TRUE, !.isEnabled = enabled]
  /\ ev' = Event("TOGGLE_ENABLED", <<>>, IF enabled THEN 1 ELSE 0)
  /\ UNCHANGED <<tweetQueue, stats, result, loaded, life, inflight, clock, arrived, msgs, flushes,
                 failedBatches>>

\* variant: the reset empties the queue as well
ResetStatsAndQueue ==
  /\ stats' = ZeroStats
  /\ saveStats(stats')
  /\ tweetQueue' = <<>>
  /\ ev' = Event("RESET_STATS", <<>>, 0)
  /\ UNCHANGED <<isEnabled, result, loaded, life, inflight, clock, arrived, msgs, flushes,
                 failedBatches>>

\* onMessage, message.type === 'RESET_STATS'
ResetStats ==
  /\ stats' = ZeroStats
  /\ saveStats(stats')
  /\ ev' = Event("RESET_STATS", <<>>, 0)
  /\ UNCHANGED <<tweetQueue, isEnabled, result, loaded, life, inflight, clock, arrived, msgs, flushes,
                 failedBatches>>

\* the setInterval callback
Timer ==
  /\ ev' = Event("TIMER", <<>>, 0)
  /\ IF TimerShouldFlush(tweetQueue, isEnabled)
       THEN sendBatch(tweetQueue)
       ELSE UNCHANGED <<tweetQueue, inflight, flushes, failedBatches>>
  /\ UNCHANGED <<isEnabled, stats, storage, result, loaded, life, clock, arrived, msgs>>

\* variant: the timestamp is written whether or not the delivery worked
RequeueStepStamping(f, op) ==
  /\ tweetQueue' = Requeue(f.batch, tweetQueue)
  /\ inflight' = inflight \ {f}
  /\ failedBatches' = failedBatches \cup {[batch |-> f.batch, mark |-> arrived]}
  /\ clock' = clock + 1
  /\ stats' = [stats EXCEPT !.lastSentAt = Timestamp(clock')]
  /\ saveStats(stats')
  /\ ev' = Event(op, f.batch, 0)
  /\ UNCHANGED <<isEnabled, result, loaded, life, arrived, msgs, flushes>>

\* the batch of a failed flush goes back, stats untouched
RequeueStep(f, op) ==
  /\ tweetQueue' = Requeue(f.batch, tweetQueue)
  /\ inflight' = inflight \ {f}
  /\ failedBatches' = failedBatches \cup {[batch |-> f.batch, mark |-> arrived]}
  /\ ev' = Event(op, f.batch, 0)
  /\ UNCHANGED <<isEnabled, stats, storage, result, loaded, life, clock, arrived, msgs, flushes>>

\* await fetch(...) rejects: the catch block
FetchRejects(f) ==
  /\ f.pc = "fetch"
  /\ RequeueStep(f, "FETCH_REJECTED")

\* await fetch(...) resolves with response.ok false: the else branch
ResponseNotOk(f) ==
  /\ f.pc = "fetch"
  /\ RequeueStep(f, "RESPONSE_NOT_OK")

\* await fetch(...) resolves with response.ok true: on to await response.json()
ResponseOk(f) ==
  /\ f.pc = "fetch"
  /\ inflight' = (inflight \ {f}) \cup {[f EXCEPT !.pc = "json"]}
  /\ ev' = Event("RESPONSE_OK", f.batch, 0)
  /\ UNCHANGED <<tweetQueue, isEnabled, stats, storage, result, loaded, life, clock, arrived,
                 msgs, flushes, failedBatches>>

\* await response.json() resolves with result
JsonResolves(f, tweets_added) ==
  /\ f.pc = "json"
  /\ clock' = clock + 1
  /\ stats' = [stats EXCEPT
                 !.tweetsSent = @ + SentIncrement(tweets_added, f.batch),
                 !.lastSentAt = Timestamp(clock')]
  /\ saveStats(stats')
  /\ inflight' = inflight \ {f}
  /\ ev' = Event("FLUSH_OK", f.batch, tweets_added)
  /\ UNCHANGED <<tweetQueue, isEnabled, result, loaded, life, arrived, msgs, flushes, failedBatches>>

\* await response.json() rejects: the catch block
JsonRejects(f) ==
  /\ f.pc = "json"
  /\ RequeueStep(f, "JSON_REJECTED")

\* variant: the queue is kept across the restart
RestartKeepingQueue ==
  /\ life.restarts < MaxRestarts
  /\ life' = [restarts |-> life.restarts + 1, born |-> arrived]
  /\ isEnabled' = TRUE
  /\ stats' = ZeroStats
  /\ result' = storage
  /\ loaded' = FALSE
  /\ inflight' = {}
  /\ failedBatches' = {}
  /\ ev' = Event("RESTART", <<>>, 0)
  /\ UNCHANGED <<tweetQueue, storage, clock, arrived, msgs, flushes>>

\* The service worker is torn down and started again later: the module
\* body runs anew (7-19).  Memory is lost, the sendBatch calls that were
\* suspended with it; storage stays, and the get reads it.
Restart ==
  /\ life.restarts < MaxRestarts
  /\ life' = [restarts |-> life.restarts + 1, born |-> arrived]
  /\ tweetQueue' = <<>>
  /\ isEnabled' = TRUE
  /\ stats' = ZeroStats
  /\ result' = storage
  /\ loaded' = FALSE
  /\ inflight' = {}
  /\ failedBatches' = {}
  /\ ev' = Event("RESTART", <<>>, 0)
  /\ UNCHANGED <<storage, clock, arrived, msgs, flushes>>

Next ==
  \/ Load /\ UNCHANGED pageVars
  \/ \E k \in MsgSizes : \E first \in FirstIds :
       TweetsCaptured(first, k) /\ UNCHANGED pageVars
  \/ GetStatus /\ UNCHANGED pageVars
  \/ \E enabled \in BOOLEAN : ToggleEnabled(enabled) /\ UNCHANGED pageVars
  \/ ResetStats /\ UNCHANGED pageVars
  \/ Timer /\ UNCHANGED pageVars
  \/ \E f \in inflight : FetchRejects(f) /\ UNCHANGED pageVars
  \/ \E f \in inflight : ResponseNotOk(f) /\ UNCHANGED pageVars
  \/ \E f \in inflight : ResponseOk(f) /\ UNCHANGED pageVars
  \/ \E f \in inflight : \E a \in AddedChoices(f.batch) :
       JsonResolves(f, a) /\ UNCHANGED pageVars
  \/ \E f \in inflight : JsonRejects(f) /\ UNCHANGED pageVars

-----------------------------------------------------------------------------
(* The page context: the script injected into the host page
   (fetch and XMLHttpRequest wrappers, tweet extraction) and the content
   script that relays what it finds to the background context. *)

\* JavaScript values, tagged with their type; an object is the sequence of
\* its <<key, value>> properties in insertion order, an array the sequence
\* of its items
Undefined == [t |-> "undefined"]
JsNull == [t |-> "null"]
NaN == [t |-> "NaN"]
Str(s) == [t |-> "string", v |-> s]
Num(n) == [t |-> "number", v |-> n]
Bool(b) == [t |-> "boolean", v |-> b]
Obj(props) == [t |-> "object", v |-> props]
Arr(items) == [t |-> "array", v |-> items]

\* typeof x
TypeOf(x) == IF x.t \in {"object", "array", "null"} THEN "object" ELSE x.t

\* the truthiness of x, as !x, || and ?: read it
Truthy(x) ==
  CASE x.t \in {"undefined", "null", "NaN"} -> FALSE
    [] x.t = "string" -> x.v # ""
    [] x.t = "number" -> x.v # 0
    [] x.t = "boolean" -> x.v
    [] OTHER -> TRUE

\* a || b
Or(a, b) == IF Truthy(a) THEN a ELSE b

\* o.k for a value the code has found truthy (or has replaced by {})
Get(o, k) ==
  IF o.t = "object" /\ \E i \in 1..Len(o.v) : o.v[i][1] = k
    THEN o.v[CHOOSE i \in 1..Len(o.v) : o.v[i][1] = k][2]
    ELSE Undefined

\* o?.k
OptGet(o, k) == IF o.t \in {"undefined", "null"} THEN Undefined ELSE Get(o, k)

\* Object.values(o), and the items of an array
Values(o) == IF o.t = "array" THEN o.v ELSE [i \in 1..Len(o.v) |-> o.v[i][2]]

\* parseInt(x) for the count strings that occur: decimal digits give their
\* number, any other text gives NaN
ParseInt(x) ==
  CASE x.t = "number" -> x
    [] x.t = "string" /\ x.v = "7" -> Num(7)
    [] x.t = "string" /\ x.v = "1500" -> Num(1500)
    [] OTHER -> NaN

\* the walk goes on below nodes of depth up to MAX_DEPTH
MAX_DEPTH == 20

\* parseTweetObject: the record of a tweet node, or null.  Every property
\* read is made on a value found truthy, replaced by {} or read with ?.,
\* so no read throws and the catch block is never entered.
parseTweetObject(tweetObj) ==
  LET legacy == Get(tweetObj, "legacy")
      userResult == OptGet(OptGet(OptGet(tweetObj, "core"), "user_results"), "result")
      userCore == Or(Get(userResult, "core"), Obj(<<>>))
      userLegacy == Or(Get(userResult, "legacy"), Obj(<<>>))
      userPrivacy == Or(Get(userResult, "privacy"), Obj(<<>>))
      username == Or(Get(userCore, "screen_name"), Get(userLegacy, "screen_name"))
      name == Or(Get(userCore, "name"), Get(userLegacy, "name"))
      views == Get(tweetObj, "views")
  IN
  IF ~Truthy(legacy) THEN JsNull
  ELSE IF ~Truthy(userResult) THEN JsNull
  ELSE IF ~Truthy(username) THEN JsNull
  ELSE Obj(<<
    <<"id", Or(Get(tweetObj, "rest_id"), Get(legacy, "id_str"))>>,
    <<"text", Or(Get(legacy, "full_text"), Get(legacy, "text"))>>,
    <<"created_at", Get(legacy, "created_at")>>,
    <<"conversation_id", Get(legacy, "conversation_id_str")>>,
    <<"in_reply_to_status_id", Get(legacy, "in_reply_to_status_id_str")>>,
    <<"in_reply_to_user_id", Get(legacy, "in_reply_to_user_id_str")>>,
    <<"retweet_count", Or(Get(legacy, "retweet_count"), Num(0))>>,
    <<"reply_count", Or(Get(legacy, "reply_count"), Num(0))>>,
    <<"like_count", Or(Get(legacy, "favorite_count"), Num(0))>>,
    <<"quote_count", Or(Get(legacy, "quote_count"), Num(0))>>,
    <<"bookmark_count", Or(Get(legacy, "bookmark_count"), Num(0))>>,
    <<"impression_count",
      IF Truthy(OptGet(views, "count")) THEN ParseInt(Get(views, "count")) ELSE Num(0)>>,
    <<"author", Obj(<<
      <<"id", Or(Get(userResult, "rest_id"), Get(legacy, "user_id_str"))>>,
      <<"username", username>>,
      <<"name", name>>,
      <<"description", Or(Or(Get(userLegacy, "description"),
                             OptGet(Get(userResult, "profile_bio"), "description")), Str(""))>>,
      <<"location", Or(Or(Get(userLegacy, "location"),
                          OptGet(Get(userResult, "location"), "location")), Str(""))>>,
      <<"url", Or(Get(userLegacy, "url"), Str(""))>>,
      <<"profile_image_url", Or(Or(OptGet(Get(userResult, "avatar"), "image_url"),
                                   Get(userLegacy, "profile_image_url_https")), Str(""))>>,
      <<"verified", Or(Or(OptGet(Get(userResult, "verification"), "verified"),
                          Get(userLegacy, "verified")), Bool(FALSE))>>,
      <<"verified_type", IF Truthy(Get(userResult, "is_blue_verified")) THEN Str("blue") ELSE JsNull>>,
      <<"followers_count", Or(Or(Get(userLegacy, "followers_count"),
                                 Get(userLegacy, "normal_followers_count")), Num(0))>>,
      <<"following_count", Or(Get(userLegacy, "friends_count"), Num(0))>>,
      <<"tweet_count", Or(Get(userLegacy, "statuses_count"), Num(0))>>,
      <<"like_count", Or(Get(userLegacy, "favourites_count"), Num(0))>>,
      <<"listed_count", Or(Get(userLegacy, "listed_count"), Num(0))>>,
      <<"created_at", Or(Or(Get(userCore, "created_at"), Get(userLegacy, "created_at")), Str(""))>>,
      <<"protected", Or(Or(Get(userPrivacy, "protected"), Get(userLegacy, "protected")), Bool(FALSE))>>
    >>)>>,
    <<"entities", Get(legacy, "entities")>>
  >>)

Max2(a, b) == IF a > b THEN a ELSE b

\* obj.__typename === 'Tweet' && obj.rest_id
IsTweetNode(obj) ==
  /\ Get(obj, "__typename").t = "string"
  /\ Get(obj, "__typename").v = "Tweet"
  /\ Truthy(Get(obj, "rest_id"))

\* variant: the walk gives up one level later
TooDeepLater(depth) == depth > MAX_DEPTH + 1

\* depth > 20: the walk gives up below this level
TooDeep(depth) == depth > MAX_DEPTH

\* depth > 20 || !obj || typeof obj !== 'object'
Skips(obj, depth) == TooDeep(depth) \/ ~Truthy(obj) \/ TypeOf(obj) # "object"

\* the event type the page script dispatches and the one the content
\* script listens for
DispatchedType == "__openccp_tweets__"
ListenedType == "__openuniverse_tweets__"

\* the listeners of window: the content script's, for ListenedType only
Listeners(type) == IF type = ListenedType THEN {"content"} ELSE {}

\* content script listener: tweets && tweets.length > 0
Relays(detail) == Len(detail) > 0

\* content script listener: the messages it sends for an event
ContentListener(event) ==
  IF "content" \in Listeners(event.type) /\ Relays(event.detail)
    THEN <<[type |-> "TWEETS_CAPTURED", tweets |-> event.detail]>>
    ELSE <<>>

\* extractAndSendTweets: tweets.length > 0
FoundSome(tweets) == Len(tweets) > 0

\* extractAndSendTweets: the events it dispatches once findTweets has
\* returned with tweets
Dispatched(tweets) ==
  IF FoundSome(tweets)
    THEN <<[type |-> DispatchedType, detail |-> tweets]>>
    ELSE <<>>

\* the messages the listeners send for a sequence of events
RECURSIVE Relayed(_)
Relayed(evs) ==
  IF Len(evs) = 0 THEN <<>> ELSE ContentListener(Head(evs)) \o Relayed(Tail(evs))

\* --- the inputs: response bodies as the timeline endpoints produce them ---

\* a user result with every field, and one with the handle alone
FullUser ==
  Obj(<< <<"rest_id", Str("u1")>>,
         <<"core", Obj(<< <<"screen_name", Str("alice")>>, <<"name", Str("Alice")>>,
                          <<"created_at", Str("2020-01-01")>> >>)>>,
         <<"legacy", Obj(<< <<"description", Str("bio")>>, <<"location", Str("here")>>,
                            <<"followers_count", Num(7)>>, <<"friends_count", Num(7)>>,
                            <<"verified", Bool(TRUE)>> >>)>>,
         <<"avatar", Obj(<< <<"image_url", Str("img")>> >>)>>,
         <<"is_blue_verified", Bool(TRUE)>> >>)
BareUser == Obj(<< <<"legacy", Obj(<< <<"screen_name", Str("bob")>> >>)>> >>)
NoHandleUser == Obj(<< <<"rest_id", Str("u3")>>, <<"core", Obj(<< <<"name", Str("Carol")>> >>)>> >>)

Core(user) == Obj(<< <<"user_results", Obj(<< <<"result", user>> >>)>> >>)

FullLegacy ==
  Obj(<< <<"full_text", Str("hello")>>, <<"created_at", Str("2024-05-01")>>,
         <<"retweet_count", Num(7)>>, <<"favorite_count", Num(7)>>,
         <<"entities", Obj(<<>>)>> >>)
BareLegacy == Obj(<< <<"full_text", Str("hi")>> >>)
NoTextLegacy == Obj(<< <<"created_at", Str("2024-05-01")>> >>)

Views == Obj(<< <<"count", Str("1500")>> >>)

\* tweet nodes
FullTweet(id) ==
  Obj(<< <<"__typename", Str("Tweet")>>, <<"rest_id", Str(id)>>,
         <<"core", Core(FullUser)>>, <<"legacy", FullLegacy>>, <<"views", Views>> >>)
NoViewsTweet(id) ==
  Obj(<< <<"__typename", Str("Tweet")>>, <<"rest_id", Str(id)>>,
         <<"core", Core(FullUser)>>, <<"legacy", FullLegacy>> >>)
BareTweet(id) ==
  Obj(<< <<"__typename", Str("Tweet")>>, <<"rest_id", Str(id)>>,
         <<"core", Core(BareUser)>>, <<"legacy", BareLegacy>> >>)
NoRestIdTweet ==
  Obj(<< <<"__typename", Str("Tweet")>>,
         <<"core", Core(FullUser)>>, <<"legacy", FullLegacy>>, <<"views", Views>> >>)
NoLegacyTweet(id) ==
  Obj(<< <<"__typename", Str("Tweet")>>, <<"rest_id", Str(id)>>, <<"core", Core(FullUser)>> >>)
NoUserTweet(id) ==
  Obj(<< <<"__typename", Str("Tweet")>>, <<"rest_id", Str(id)>>, <<"legacy", FullLegacy>> >>)
NoHandleTweet(id) ==
  Obj(<< <<"__typename", Str("Tweet")>>, <<"rest_id", Str(id)>>,
         <<"core", Core(NoHandleUser)>>, <<"legacy", FullLegacy>> >>)
NoTextTweet(id) ==
  Obj(<< <<"__typename", Str("Tweet")>>, <<"rest_id", Str(id)>>,
         <<"core", Core(FullUser)>>, <<"legacy", NoTextLegacy>> >>)
\* a tweet quoting another: the quoted tweet node sits inside the quoting one
QuotingTweet(id, quoted) ==
  Obj(<< <<"__typename", Str("Tweet")>>, <<"rest_id", Str(id)>>,
         <<"core", Core(FullUser)>>, <<"legacy", FullLegacy>>,
         <<"quoted_status_result", Obj(<< <<"result", quoted>> >>)>> >>)
\* a tweet node without legacy data that still holds a quoted tweet
NoLegacyQuotingTweet(id, quoted) ==
  Obj(<< <<"__typename", Str("Tweet")>>, <<"rest_id", Str(id)>>, <<"core", Core(FullUser)>>,
         <<"quoted_status_result", Obj(<< <<"result", quoted>> >>)>> >>)

\* a timeline: data.entries[i].tweet_results.result
Timeline(nodes) ==
  Obj(<< <<"data", Obj(<< <<"entries",
      Arr([i \in 1..Len(nodes) |-> Obj(<< <<"tweet_results", Obj(<< <<"result", nodes[i]>> >>)>> >>)])
    >> >>)>> >>)

\* node, d levels below the root
RECURSIVE Nest(_, _)
Nest(node, d) == IF d = 0 THEN node ELSE Obj(<< <<"next", Nest(node, d - 1)>> >>)

\* the levels at which the deep payloads hold their tweet node
DeepLevels == {MAX_DEPTH - 1, MAX_DEPTH, MAX_DEPTH + 1, MAX_DEPTH + 2}

\* the payload of the end-to-end scenario: one full tweet result, one
\* without views, one without rest_id
ThreeResults == Timeline(<<FullTweet("1"), NoViewsTweet("2"), NoRestIdTweet>>)

\* a response body that is not JSON
NotJson == [t |-> "invalid"]

Payloads ==
  { ThreeResults,
    Timeline(<<FullTweet("1")>>),
    Timeline(<<BareTweet("1")>>),
    Timeline(<<NoTextTweet("1")>>),
    Timeline(<<NoRestIdTweet, FullTweet("2")>>),
    Timeline(<<NoLegacyTweet("1"), FullTweet("2")>>),
    Timeline(<<NoUserTweet("1"), FullTweet("2")>>),
    Timeline(<<NoHandleTweet("1"), FullTweet("2")>>),
    Timeline(<<FullTweet("1"), NoHandleTweet("2"), BareTweet("3")>>),
    Timeline(<<QuotingTweet("1", FullTweet("2"))>>),
    Timeline(<<NoLegacyQuotingTweet("1", FullTweet("2")), FullTweet("3")>>),
    Timeline(<<>>),
    FullTweet("1"),
    Obj(<<>>), Arr(<<>>), JsNull, Str("ok"), Num(7) }
  \cup { Nest(FullTweet("1"), d) : d \in DeepLevels }

Bodies == Payloads \cup {NotJson}

\* --- the wrappers ---

\* URL texts, cut into the pieces that the endpoint patterns are made of
HomeTimelineUrl ==
  <<"https:", "/", "/", "x.com", "/", "i", "/", "api", "/", "graphql", "/", "q1", "/",
    "HomeTimeline">>
LegacyTimelineUrl ==
  <<"https:", "/", "/", "api.x.com", "/", "2", "/", "timeline", "/", "home.json">>
SettingsUrl ==
  <<"https:", "/", "/", "x.com", "/", "i", "/", "api", "/", "1.1", "/", "settings.json">>

\* isTweetEndpoint: patterns
TweetPatterns ==
  { <<"/", "graphql", "/">>, <<"/", "2", "/", "timeline", "/">>,
    <<"/", "i", "/", "api", "/", "graphql", "/">>,
    <<"TweetDetail">>, <<"HomeTimeline">>, <<"UserTweets">>, <<"SearchTimeline">>,
    <<"ListLatestTweetsTimeline">> }

\* url.includes(pattern)
Includes(url, pattern) ==
  \E i \in 1..(Len(url) - Len(pattern) + 1) : SubSeq(url, i, i + Len(pattern) - 1) = pattern

\* isTweetEndpoint(url)
isTweetEndpoint(url) == \E pattern \in TweetPatterns : Includes(url, pattern)

\* what the host page passes as the URL: a string, a Request (fetch only)
\* or a URL object
Inputs ==
  [kind : {"string"}, href : {HomeTimelineUrl, LegacyTimelineUrl, SettingsUrl}]
    \cup [kind : {"Request", "URL"}, href : {HomeTimelineUrl}]

Requests ==
  {r \in [api : {"fetch", "xhr"}, input : Inputs, body : Bodies] :
     r.api = "xhr" => r.input.kind # "Request"}

\* typeof url === 'string' && isTweetEndpoint(url), where url is
\* args[0]?.url || args[0] for fetch and the argument of open for XHR
Inspects(r) ==
  /\ r.input.kind \in {"string"} \cup (IF r.api = "fetch" THEN {"Request"} ELSE {})
  /\ isTweetEndpoint(r.input.href)

\* variant: the wrapper resolves with the clone it has read
ReturnsClone == "clone"

\* fetch wrapper: return response
Returns == "response"

\* no walk under way and nothing found
NoScan == [stack |-> <<>>, results |-> <<>>, levels |-> <<>>, deepest |-> -1, steps |-> 0]

PageInit ==
  /\ request \in Requests
  /\ pagePc = "start"
  /\ host = "pending"
  /\ scan = NoScan
  /\ events = <<>>
  /\ messages = <<>>

\* no call of the host page is being handled
PageIdle ==
  /\ request = [api |-> "none"]
  /\ pagePc = "idle"
  /\ host = "pending"
  /\ scan = NoScan
  /\ events = <<>>
  /\ messages = <<>>

\* extractAndSendTweets(data): const tweets = []; findTweets(data, tweets)
\* is called.  The stack holds the loops under way, the innermost last:
\* the items a forEach goes through, the index of the item it has come to
\* and the depth it passes to findTweets.  The outermost entry stands for
\* the call on data itself, at depth 0.  For the properties the walk keeps
\* the depth of each record found (levels), the deepest level at which a
\* node was read (deepest) and the number of its steps (steps).
StartScan(data) ==
  [stack |-> <<[items |-> <<data>>, i |-> 1, depth |-> 0]>>,
   results |-> <<>>, levels |-> <<>>, deepest |-> -1, steps |-> 0]

\* the innermost loop and the value it has come to
Top == scan.stack[Len(scan.stack)]
Current == Top.items[Top.i]

\* the loop that called findTweets goes on with its next item
NextItem(stack) == [stack EXCEPT ![Len(stack)].i = @ + 1]

\* findTweets returns after a tweet node, with or without a record
AfterTweetNode(stack, tweet) == NextItem(stack)

\* fetch wrapper: await originalFetch.apply(this, args) resolves; for a
\* tweet endpoint the wrapper goes on to await clone.json(), for any other
\* request it returns the response
OriginalFetchResolves ==
  /\ request.api = "fetch" /\ pagePc = "start"
  /\ IF Inspects(request)
       THEN pagePc' = "json" /\ host' = host
       ELSE pagePc' = "done" /\ host' = Returns
  /\ UNCHANGED <<request, scan, events, messages>>
  /\ UNCHANGED vars

\* fetch wrapper: await originalFetch.apply(this, args) rejects, and so
\* does the wrapper
OriginalFetchRejects ==
  /\ request.api = "fetch" /\ pagePc = "start"
  /\ pagePc' = "failed"
  /\ host' = "error"
  /\ UNCHANGED <<request, scan, events, messages>>
  /\ UNCHANGED vars

\* fetch wrapper: await clone.json() resolves with data and
\* extractAndSendTweets(data) is called
CloneJsonResolves ==
  /\ pagePc = "json" /\ request.body # NotJson
  /\ scan' = StartScan(request.body)
  /\ pagePc' = "scanning"
  /\ UNCHANGED <<request, host, events, messages>>
  /\ UNCHANGED vars

\* fetch wrapper: await clone.json() rejects, the catch block ignores it
\* and the wrapper returns the response
CloneJsonRejects ==
  /\ pagePc = "json" /\ request.body = NotJson
  /\ pagePc' = "done"
  /\ host' = Returns
  /\ UNCHANGED <<request, scan, events, messages>>
  /\ UNCHANGED vars

\* XMLHttpRequest.prototype.send wrapper: adds its load listener for a
\* tweet endpoint, then calls the original send
XhrSend ==
  /\ request.api = "xhr" /\ pagePc = "start"
  /\ pagePc' = IF Inspects(request) THEN "listening" ELSE "sent"
  /\ UNCHANGED <<request, host, scan, events, messages>>
  /\ UNCHANGED vars

\* the load event of the XHR: the host page has its response, and the
\* wrapper's listener, if added, parses responseText and calls
\* extractAndSendTweets(data); a parse error is ignored
XhrLoad ==
  /\ pagePc \in {"listening", "sent"}
  /\ host' = "response"
  /\ IF pagePc = "listening" /\ request.body # NotJson
       THEN scan' = StartScan(request.body) /\ pagePc' = "scanning"
       ELSE scan' = scan /\ pagePc' = "done"
  /\ UNCHANGED <<request, events, messages>>
  /\ UNCHANGED vars

\* findTweets: depth > 20 || !obj || typeof obj !== 'object', return
findTweetsSkips ==
  /\ pagePc = "scanning" /\ scan.stack # <<>> /\ Top.i <= Len(Top.items)
  /\ Skips(Current, Top.depth)
  /\ scan' = [scan EXCEPT !.stack = NextItem(@), !.steps = @ + 1]
  /\ UNCHANGED <<request, pagePc, host, events, messages>>
  /\ UNCHANGED vars

\* if (tweet) results.push(tweet); return
Pushed(tweet) ==
  [stack |-> AfterTweetNode(scan.stack, tweet),
   results |-> IF Truthy(tweet) THEN Append(scan.results, tweet) ELSE scan.results,
   levels |-> IF Truthy(tweet) THEN Append(scan.levels, Top.depth) ELSE scan.levels,
   deepest |-> Max2(scan.deepest, Top.depth),
   steps |-> scan.steps + 1]

\* findTweets on a tweet node: parseTweetObject, push the record if there
\* is one, return
findTweetsParses ==
  /\ pagePc = "scanning" /\ scan.stack # <<>> /\ Top.i <= Len(Top.items)
  /\ ~Skips(Current, Top.depth) /\ IsTweetNode(Current)
  /\ scan' = Pushed(parseTweetObject(Current))
  /\ UNCHANGED <<request, pagePc, host, events, messages>>
  /\ UNCHANGED vars

\* findTweets on any other object or array: a forEach over its items or
\* its values, with depth + 1
findTweetsDescends ==
  /\ pagePc = "scanning" /\ scan.stack # <<>> /\ Top.i <= Len(Top.items)
  /\ ~Skips(Current, Top.depth) /\ ~IsTweetNode(Current)
  /\ scan' = [scan EXCEPT
                 !.stack = Append(NextItem(@),
                                  [items |-> Values(Current), i |-> 1, depth |-> Top.depth + 1]),
                 !.deepest = Max2(@, Top.depth),
                 !.steps = @ + 1]
  /\ UNCHANGED <<request, pagePc, host, events, messages>>
  /\ UNCHANGED vars

\* a forEach has gone through its items: the findTweets that ran it returns
forEachEnds ==
  /\ pagePc = "scanning" /\ scan.stack # <<>> /\ Top.i > Len(Top.items)
  /\ scan' = [scan EXCEPT !.stack = SubSeq(@, 1, Len(@) - 1), !.steps = @ + 1]
  /\ UNCHANGED <<request, pagePc, host, events, messages>>
  /\ UNCHANGED vars

\* findTweets(data, tweets) has returned: extractAndSendTweets dispatches
\* its event if tweets were found, the listeners of the event run, and the
\* fetch wrapper returns the response
extractAndSendTweetsEnds ==
  /\ pagePc = "scanning" /\ scan.stack = <<>>
  /\ events' = events \o Dispatched(scan.results)
  /\ messages' = messages \o Relayed(Dispatched(scan.results))
  /\ pagePc' = "done"
  /\ host' = IF request.api = "fetch" THEN Returns ELSE host
  /\ UNCHANGED <<request, scan>>
  /\ UNCHANGED vars

PageNext ==
  \/ OriginalFetchResolves
  \/ OriginalFetchRejects
  \/ CloneJsonResolves
  \/ CloneJsonRejects
  \/ XhrSend
  \/ XhrLoad
  \/ findTweetsSkips
  \/ findTweetsParses
  \/ findTweetsDescends
  \/ forEachEnds
  \/ extractAndSendTweetsEnds

-----------------------------------------------------------------------------
(* Specifications *)

\* the background context, with no page feeding it but the messages of Next
BackgroundInit == Init /\ PageIdle
Spec == BackgroundInit /\ [][Next]_allVars

\* The scheduling the code gives: setInterval keeps calling the timer
\* callback, and every promise a flush awaits is settled at some time.
\* Nothing obliges the user to send a message.
FairSpec ==
  /\ Spec
  /\ WF_vars(Timer)
  /\ WF_vars(\E f \in inflight : ResponseOk(f))
  /\ WF_vars(\E f \in inflight : \E a \in AddedChoices(f.batch) : JsonResolves(f, a))

\* the background context receiving, besides new tweets, tweets it has
\* been sent before (the page shows a tweet again): ids from 1 on
SeenIds == {1}
DupNext ==
  \/ Next
  \/ \E k \in MsgSizes : \E first \in SeenIds :
       TweetsCaptured(first, k) /\ UNCHANGED pageVars
DupInit == Init /\ PageIdle
DupSpec == DupInit /\ [][DupNext]_allVars

\* the background context over several lifetimes
RestartNext ==
  \/ Next
  \/ Restart /\ UNCHANGED pageVars
RestartInit == Init /\ PageIdle
RestartSpec == RestartInit /\ [][RestartNext]_allVars

\* the page context handling one call of the host page
PageStart == Init /\ PageInit
PageSpec == PageStart /\ [][PageNext]_allVars


-----------------------------------------------------------------------------
(* Vocabulary of the properties *)

IsPrefix(p, q) == Len(p) <= Len(q) /\ SubSeq(q, 1, Len(p)) = p

\* the steps in which a flush ends with a failed delivery
FailOps == {"FETCH_REJECTED", "RESPONSE_NOT_OK"}

\* the flushes a step has started
Started == {f \in inflight' \ inflight : f.pc = "fetch"}

\* request req holds the failed batch fb whole and in order, and no tweet
\* enqueued after the failure comes before it
SendsFirst(req, fb) ==
  \E i \in 1..Len(req) :
    /\ i + Len(fb.batch) - 1 <= Len(req)
    /\ SubSeq(req, i, i + Len(fb.batch) - 1) = fb.batch
    /\ \A j \in 1..(i - 1) : req[j].n <= fb.mark

\* the serial numbers of the tweets in sequence q
Serials(q) == {q[i].n : i \in 1..Len(q)}

-----------------------------------------------------------------------------
(* C1: when a flush's delivery fails (fetch rejects or the status is not a
   success), the batch is back at the front of the queue, same items, same
   order, and the next flush sends that batch before any tweet enqueued
   after the failure. *)
C1_RetrySendsFailedBatch ==
  [][ /\ ev'.op \in FailOps => IsPrefix(ev'.batch, tweetQueue')
      /\ \A f \in Started : \A fb \in failedBatches : SendsFirst(f.batch, fb)
    ]_vars

(* C2: with the collector disabled and tweets queued, a timer tick still
   starts a flush of the queued tweets. *)
C2_DisabledTimerDrains ==
  [][ (ev'.op = "TIMER" /\ ~isEnabled /\ Len(tweetQueue) > 0)
        => \E f \in Started : f.batch = TakeBatch(tweetQueue) ]_vars

(* C3: in every reachable state the queue holds the tweets in the order in
   which they were enqueued. *)
C3_QueueFifo ==
  \A i, j \in 1..Len(tweetQueue) :
    i < j => tweetQueue[i].n < tweetQueue[j].n

(* C4: a flush takes its batch out of the queue before it awaits, so no tweet
   is both queued and in flight; intake while requests are in flight leaves
   every in-flight request as it was and puts each new tweet in the queue
   (or in the flush that this intake starts); and a batch that is requeued
   goes in front of everything queued, the tweets that arrived while it was
   in flight included. *)
C4_ArrivalsStayBehindInFlight ==
  [][ /\ \A f \in inflight' : Serials(f.batch) \cap Serials(tweetQueue') = {}
      /\ ev'.op = "TWEETS_CAPTURED" =>
           /\ inflight \subseteq inflight'
           /\ \A n \in (arrived + 1)..arrived' :
                \/ n \in Serials(tweetQueue')
                \/ \E f \in Started : n \in Serials(f.batch)
      /\ ev'.op \in FailOps \cup {"JSON_REJECTED"} =>
           tweetQueue' = ev'.batch \o tweetQueue
    ]_vars

\* one flush only, its batch requeued in front of tweets that arrived while
\* it was in flight
C4_Witness ==
  /\ ev.op \in FailOps
  /\ flushes = 1
  /\ Len(ev.batch) = 2
  /\ Len(tweetQueue) = 4
  /\ IsPrefix(ev.batch, tweetQueue)
  /\ tweetQueue[3].n > ev.batch[2].n

(* C5: on a success response tweetsSent grows by exactly the reported
   tweets_added, for every reported value from 0 to the batch size. *)
C5_SentGrowsByReported ==
  [][ ev'.op = "FLUSH_OK" => stats'.tweetsSent = stats.tweetsSent + ev'.num
    ]_vars

(* C6: a failed delivery leaves tweetsSent, lastSentAt and the persisted
   state as they were; the queue alone changes, by getting the batch back. *)
C6_FailureLeavesStats ==
  [][ ev'.op \in FailOps =>
        /\ stats' = stats
        /\ storage' = storage
        /\ isEnabled' = isEnabled
        /\ tweetQueue' = ev'.batch \o tweetQueue
    ]_vars

\* a delivery failed after an earlier one had succeeded
C6_Witness ==
  /\ ev.op \in FailOps
  /\ Len(ev.batch) > 0
  /\ IsPrefix(ev.batch, tweetQueue)
  /\ stats.tweetsSent > 0
  /\ stats.lastSentAt # NULL
  /\ storage.stats = stats

(* C7: while enabled, a TWEETS_CAPTURED message that brings the queue to 50
   tweets or more starts a flush in the same step, which takes the first 50
   tweets out of the queue. *)
C7_ThresholdFlushInHandler ==
  [][ (ev'.op = "TWEETS_CAPTURED" /\ isEnabled
         /\ Len(tweetQueue) + ev'.num >= 50)
        => \E f \in Started :
             /\ Len(f.batch) = 50
             /\ Len(tweetQueue') = Len(tweetQueue) + ev'.num - 50
             /\ IsPrefix(tweetQueue, f.batch \o tweetQueue')
             /\ \A i \in 1..ev'.num :
                  (f.batch \o tweetQueue')[Len(tweetQueue) + i].n = arrived + i
    ]_vars

\* 2 tweets were queued, 50 more arrived: the first 50 are in flight, the last
\* 2 of the message stay queued
C7_Witness ==
  /\ ev.op = "TWEETS_CAPTURED"
  /\ ev.num = 50
  /\ Len(tweetQueue) = 2
  /\ tweetQueue[1].n = 51
  /\ \E f \in inflight : f.pc = "fetch" /\ Len(f.batch) = 50 /\ f.batch[1].n = 1

(* C8: a TWEETS_CAPTURED message handled while disabled changes nothing and
   starts no flush. *)
C8_DisabledIntakeChangesNothing ==
  [][ (ev'.op = "TWEETS_CAPTURED" /\ ~isEnabled)
        => UNCHANGED <<tweetQueue, isEnabled, stats, storage, result, loaded, life,
                       inflight, clock>> ]_vars

\* a message dropped while tweets from before the disabling are queued
C8_Witness ==
  /\ ev.op = "TWEETS_CAPTURED"
  /\ ~isEnabled
  /\ Len(tweetQueue) > 0
  /\ stats.tweetsCollected = Len(tweetQueue)

(* C9: RESET_STATS zeroes tweetsCollected and tweetsSent and nulls
   lastSentAt, and leaves the queue and the enabled flag as they were. *)
C9_ResetIsolation ==
  [][ ev'.op = "RESET_STATS" =>
        /\ stats' = [tweetsCollected |-> 0, tweetsSent |-> 0, lastSentAt |-> 0]
        /\ tweetQueue' = tweetQueue
        /\ isEnabled' = isEnabled
    ]_vars

\* stats reset after a delivery, with tweets queued and the collector disabled
C9_Witness ==
  /\ ev.op = "RESET_STATS"
  /\ stats = [tweetsCollected |-> 0, tweetsSent |-> 0, lastSentAt |-> 0]
  /\ clock > 0
  /\ Len(tweetQueue) > 0
  /\ ~isEnabled

(* C10: TOGGLE_ENABLED sets the flag to the requested value and leaves queue,
   counters and in-flight flushes alone; whatever the flag, a flush in flight
   ends by updating the stats (success) or by requeueing (failure). *)
C10_ToggleLeavesFlushes ==
  [][ /\ ev'.op = "TOGGLE_ENABLED" =>
           /\ isEnabled' = (ev'.num = 1)
           /\ UNCHANGED <<tweetQueue, stats, inflight>>
      /\ ev'.op = "FLUSH_OK" =>
           /\ stats'.tweetsSent > stats.tweetsSent
           /\ stats'.lastSentAt # NULL
           /\ storage'.stats = stats'
           /\ \E f \in inflight : f.batch = ev'.batch /\ inflight' = inflight \ {f}
      /\ ev'.op \in FailOps =>
           /\ tweetQueue' = ev'.batch \o tweetQueue
           /\ \E f \in inflight : f.batch = ev'.batch /\ inflight' = inflight \ {f}
      /\ inflight # {} => ENABLED (\E f \in inflight : FetchRejects(f) \/ ResponseOk(f)
                                     \/ JsonRejects(f))
    ]_vars

\* a flush started while enabled has succeeded after the collector was
\* disabled
C10_Witness ==
  /\ ev.op = "FLUSH_OK"
  /\ ~isEnabled
  /\ storage.hasEnabled /\ ~storage.isEnabled
  /\ stats.tweetsSent > 0
  /\ stats.lastSentAt # NULL

\* the steps in which a delivery call does not succeed
DeliveryFailures == {"FETCH_REJECTED", "RESPONSE_NOT_OK", "JSON_REJECTED"}

\* every tweet taken in has left the queue and no flush is pending
AllDelivered == Len(tweetQueue) = 0 /\ inflight = {}

(* C11: with timer ticks going on and, from some point on, no delivery call
   failing, every queued tweet is at last delivered and the queue ends up
   empty, without any message from the user.  The runs that use up the
   flush budget of the model are left aside. *)
C11_RetryUntilDelivered ==
  (<>[](ev.op \notin DeliveryFailures) /\ [](flushes < MaxFlushes))
    => <>[]AllDelivered

-----------------------------------------------------------------------------
(* Vocabulary of the page-context properties *)

\* the wrapper has had the body parsed and scanned, and has finished
ScanDone == pagePc = "done" /\ Inspects(request) /\ request.body # NotJson

\* x is an object or an array
IsContainer(x) == x.t \in {"object", "array"}

\* x is a string that is not empty
NonEmpty(x) == x.t = "string" /\ x.v # ""

\* the user result, text and handle that a tweet node carries
UserResultOf(obj) == OptGet(OptGet(OptGet(obj, "core"), "user_results"), "result")
TextOf(obj) == Or(Get(Get(obj, "legacy"), "full_text"), Get(Get(obj, "legacy"), "text"))
HandleOf(obj) ==
  Or(Get(Get(UserResultOf(obj), "core"), "screen_name"),
     Get(Get(UserResultOf(obj), "legacy"), "screen_name"))

\* a structurally valid tweet node: type tag 'Tweet', a rest_id, a text
\* and an author handle
ValidTweetNode(obj) ==
  /\ IsTweetNode(obj)
  /\ NonEmpty(Get(obj, "rest_id"))
  /\ NonEmpty(TextOf(obj))
  /\ NonEmpty(HandleOf(obj))

\* the number of valid tweet nodes at depth <= MAX_DEPTH in obj, which
\* lies at depth depth: inside other tweet nodes or not
RECURSIVE ValidNodes(_, _), ValidNodesIn(_, _, _)
ValidNodes(obj, depth) ==
  IF depth > MAX_DEPTH \/ ~IsContainer(obj) THEN 0
  ELSE (IF ValidTweetNode(obj) THEN 1 ELSE 0) + ValidNodesIn(Values(obj), 1, depth + 1)
ValidNodesIn(items, i, depth) ==
  IF i > Len(items) THEN 0
  ELSE ValidNodes(items[i], depth) + ValidNodesIn(items, i + 1, depth)

\* the rest_ids, in document order, of the tweet nodes at depth <=
\* MAX_DEPTH that give a record and lie in no other tweet node
RECURSIVE Outermost(_, _), OutermostIn(_, _, _)
Outermost(obj, depth) ==
  IF depth > MAX_DEPTH \/ ~IsContainer(obj) THEN <<>>
  ELSE IF IsTweetNode(obj)
         THEN (IF Truthy(parseTweetObject(obj)) THEN <<Get(obj, "rest_id").v>> ELSE <<>>)
         ELSE OutermostIn(Values(obj), 1, depth + 1)
OutermostIn(items, i, depth) ==
  IF i > Len(items) THEN <<>>
  ELSE Outermost(items[i], depth) \o OutermostIn(items, i + 1, depth)

\* the ids of the records found, in the order found
ResultIds == [i \in 1..Len(scan.results) |-> Get(scan.results[i], "id").v]

(* C12: a payload with N valid tweet nodes at depth <= 20, wherever they
   sit, inside another tweet node included, gives exactly N records. *)
C12_ExtractsEveryValidNode ==
  ScanDone => Len(scan.results) = ValidNodes(request.body, 0)

(* C13: every record found has a non-empty id, a non-empty text and an
   author with a non-empty username; a tweet node lacking one of them gives
   no record. *)
C13_RecordsAreViable ==
  \A i \in 1..Len(scan.results) :
    /\ NonEmpty(Get(scan.results[i], "id"))
    /\ NonEmpty(Get(scan.results[i], "text"))
    /\ NonEmpty(Get(Get(scan.results[i], "author"), "username"))

\* the rest_ids of the valid tweet nodes at depth <= MAX_DEPTH in obj,
\* which lies at depth depth
RECURSIVE ValidIds(_, _), ValidIdsIn(_, _, _)
ValidIds(obj, depth) ==
  IF depth > MAX_DEPTH \/ ~IsContainer(obj) THEN {}
  ELSE (IF ValidTweetNode(obj) THEN {Get(obj, "rest_id").v} ELSE {})
         \cup ValidIdsIn(Values(obj), 1, depth + 1)
ValidIdsIn(items, i, depth) ==
  IF i > Len(items) THEN {}
  ELSE ValidIds(items[i], depth) \cup ValidIdsIn(items, i + 1, depth)

\* the number of tweet nodes at depth <= MAX_DEPTH in obj that give no
\* record
RECURSIVE FailedNodes(_, _), FailedNodesIn(_, _, _)
FailedNodes(obj, depth) ==
  IF depth > MAX_DEPTH \/ ~IsContainer(obj) THEN 0
  ELSE (IF IsTweetNode(obj) /\ ~Truthy(parseTweetObject(obj)) THEN 1 ELSE 0)
         + FailedNodesIn(Values(obj), 1, depth + 1)
FailedNodesIn(items, i, depth) ==
  IF i > Len(items) THEN 0
  ELSE FailedNodes(items[i], depth) + FailedNodesIn(items, i + 1, depth)

(* C14: a tweet node that gives no record does not stop the walk: in a
   payload with such a node, every valid tweet node, among its siblings and
   elsewhere, still has its record among those found. *)
C14_FailedNodeDoesNotStopWalk ==
  (ScanDone /\ FailedNodes(request.body, 0) > 0) =>
    \A id \in ValidIds(request.body, 0) : \E i \in 1..Len(scan.results) : ResultIds[i] = id

\* the walk goes on after every tweet node, with a record or without: the
\* records found are those of the tweet nodes that give one and lie in no
\* other tweet node, in document order
OutermostAllFound == ScanDone => ResultIds = Outermost(request.body, 0)

\* v has been given a value: it is neither undefined nor null
Defaulted(v) == v.t \notin {"undefined", "null"}

\* the counters of a record that default to 0
CounterFields ==
  {"retweet_count", "reply_count", "like_count", "quote_count", "bookmark_count",
   "impression_count"}

\* the author fields that default to '', 0 or false
AuthorDefaultFields ==
  {"name", "description", "location", "url", "profile_image_url", "verified",
   "followers_count", "following_count", "tweet_count", "like_count", "listed_count",
   "created_at", "protected"}

(* C15: in every record the engagement counters and the impression count
   are numbers, 0 when absent from the node, and every author field (display
   name, bio, location, image URL, counts, flags, creation timestamp) has a
   value, never undefined or null. *)
C15_AbsentFieldsDefaulted ==
  \A i \in 1..Len(scan.results) :
    /\ \A f \in CounterFields : Get(scan.results[i], f).t = "number"
    /\ \A f \in AuthorDefaultFields : Defaulted(Get(Get(scan.results[i], "author"), f))

\* the number of values in the tree x: x, its items or property values,
\* theirs, and so on
RECURSIVE TreeSize(_), TreeSizeIn(_, _)
TreeSize(x) == IF IsContainer(x) THEN 1 + TreeSizeIn(Values(x), 1) ELSE 1
TreeSizeIn(items, i) ==
  IF i > Len(items) THEN 0 ELSE TreeSize(items[i]) + TreeSizeIn(items, i + 1)

(* C16: the walk ends on every payload: it calls findTweets once at most
   for each value of the payload and ends each loop once, so that it takes
   no more than twice the size of the payload plus one steps.  It reads no
   node more than 20 levels below the root, and finds no record below that
   level. *)
C16_WalkBoundedAndEnds ==
  /\ scan.steps <= 2 * TreeSize(request.body) + 1
  /\ scan.deepest <= MAX_DEPTH
  /\ \A i \in 1..Len(scan.levels) : scan.levels[i] <= MAX_DEPTH
  /\ \A i \in 1..Len(scan.stack) : scan.stack[i].depth <= MAX_DEPTH + 1

C16_Witness ==
  /\ ScanDone
  /\ request.body = Nest(FullTweet("1"), MAX_DEPTH + 1)
  /\ scan.deepest = MAX_DEPTH
  /\ scan.results = <<>>

(* C17: a response in which tweets were found leads to exactly one
   TWEETS_CAPTURED message, carrying all of them in the order found; a
   response in which none was found leads to no message. *)
C17_OneMessagePerResponse ==
  ScanDone =>
    IF Len(scan.results) > 0
      THEN /\ Len(messages) = 1
           /\ messages[1].type = "TWEETS_CAPTURED"
           /\ messages[1].tweets = scan.results
      ELSE Len(messages) = 0

(* C18: the payload with three tweet results (one full, one without views,
   one without rest_id) gives 2 records, and these reach the background
   context in one TWEETS_CAPTURED message of 2 tweets, from where they are
   counted, queued and flushed. *)
C18_ThreeResultsReachBackground ==
  (ScanDone /\ request.body = ThreeResults) =>
    /\ ResultIds = <<"1", "2">>
    /\ Len(messages) = 1
    /\ Len(messages[1].tweets) = 2

(* C19: for every fetch the host page is given the response of the
   original fetch; a body that cannot be parsed changes nothing to that,
   and the wrapper rejects only when the original fetch rejects. *)
C19_HostGetsOriginalResponse ==
  /\ host \in {"pending", "response", "error"}
  /\ host = "error" => pagePc = "failed"
  /\ pagePc = "done" => host = "response"

C19_Witness ==
  /\ request.api = "fetch" /\ Inspects(request)
  /\ request.body = NotJson
  /\ pagePc = "done"
  /\ host = "response"

(* C20: for a request to a tweet endpoint the host page has the response
   in hand while the clone's body is still being read, parsed and
   scanned. *)
C20_ResponseBeforeScan ==
  (request.api = "fetch" /\ pagePc \in {"json", "scanning"}) => host = "response"

-----------------------------------------------------------------------------
(* Vocabulary of the restart properties *)

\* the tweets the background context holds: queued or in a flush
Held == Serials(tweetQueue) \cup UNION {Serials(f.batch) : f \in inflight}

\* the isEnabled and stats that record s of the two storage keys stands for,
\* a key never written standing for the value the module body gives
EnabledIn(s) == IF s.hasEnabled THEN s.isEnabled ELSE TRUE
StatsIn(s) == IF s.hasStats THEN s.stats ELSE ZeroStats

(* C21: across a restart the queue starts empty and nothing of the earlier
   lifetime is ever queued or sent again, storage is left as it was, and
   once the load callback has run the enabled flag and the counters have
   the values that were persisted when the context restarted. *)
C21_RestartRestoresFlagAndStats ==
  /\ [](\A n \in Held : n > life.born)
  /\ [][ /\ ev'.op = "RESTART" =>
             /\ tweetQueue' = <<>> /\ inflight' = {}
             /\ storage' = storage /\ result' = storage
         /\ (ev'.op = "LOAD" /\ result.hasEnabled) => isEnabled' = result.isEnabled
         /\ (ev'.op = "LOAD" /\ result.hasStats) => stats' = result.stats
         /\ ev'.op # "RESTART" => result' = result
     ]_vars

\* after a restart that lost 2 queued tweets, with collection disabled and
\* 2 tweets counted in storage, the load has restored flag and counters
C21_Witness ==
  /\ ev.op = "LOAD"
  /\ life.restarts = 1 /\ life.born = 2
  /\ tweetQueue = <<>>
  /\ ~isEnabled
  /\ stats.tweetsCollected = 2 /\ stats.tweetsSent = 0

(* C22: every delivery request carries between 1 and 50 tweets: the first
   min(50, queue length) tweets of the queue as it was when the flush
   started (for a flush started by intake, the queue with the message's
   tweets appended), in queue order, the rest staying queued.  A step
   starts one flush at most, and a timer tick on an empty queue sends no
   request and changes nothing. *)
C22_RequestIsQueueFront ==
  [][ /\ \A f \in Started :
           LET q == f.batch \o tweetQueue' IN
           /\ Len(f.batch) >= 1 /\ Len(f.batch) <= BATCH_SIZE
           /\ Len(f.batch) = Min(BATCH_SIZE, Len(q))
           /\ IF ev'.op = "TWEETS_CAPTURED"
                THEN IsPrefix(tweetQueue, q) /\ Len(q) = Len(tweetQueue) + ev'.num
                ELSE q = tweetQueue
      /\ Cardinality(Started) <= 1
      /\ (ev'.op = "TIMER" /\ Len(tweetQueue) = 0)
           => UNCHANGED <<tweetQueue, isEnabled, stats, storage, inflight>>
    ]_vars

\* a timer flush has taken a queue of 4 tweets whole
C22_Witness ==
  /\ ev.op = "TIMER"
  /\ tweetQueue = <<>>
  /\ \E f \in inflight : f.pc = "fetch" /\ Len(f.batch) = 4

(* C23: a TWEETS_CAPTURED message with k tweets handled while enabled
   appends its k tweets at the back of the queue in message order, tweets
   already queued or sent included, and adds exactly k to tweetsCollected
   (a flush that the handler starts then takes the front of that queue). *)
C23_IntakeAppendsAll ==
  [][ (ev'.op = "TWEETS_CAPTURED" /\ isEnabled) =>
        /\ stats'.tweetsCollected = stats.tweetsCollected + ev'.num
        /\ \E first \in FirstIds \cup SeenIds :
             LET pushed == tweetQueue \o Tweets(first, ev'.num) IN
             \/ tweetQueue' = pushed /\ Started = {}
             \/ \E f \in Started : f.batch \o tweetQueue' = pushed
    ]_vars

\* a message has brought again the two tweets that are queued
C23_Witness ==
  /\ ev.op = "TWEETS_CAPTURED"
  /\ Len(tweetQueue) = 4
  /\ tweetQueue[3].id = tweetQueue[1].id /\ tweetQueue[4].id = tweetQueue[2].id
  /\ stats.tweetsCollected = 4

\* every handler or continuation that changes the enabled flag or the stats
\* after the load callback writes the new value to storage
WritesOnEveryChange ==
  [][ /\ (loaded /\ ev'.op # "RESTART" /\ isEnabled' # isEnabled) =>
             storage'.hasEnabled /\ storage'.isEnabled = isEnabled'
      /\ (loaded /\ ev'.op # "RESTART" /\ stats' # stats) =>
             storage'.hasStats /\ storage'.stats = stats'
    ]_vars

(* C24: once the load callback has run, the persisted isEnabled and stats
   are the in-memory ones between any two steps of the background
   context. *)
C24_StorageMirrorsMemory ==
  loaded => (EnabledIn(storage) = isEnabled /\ StatsIn(storage) = stats)

(* C25: within one lifetime no accepted tweet is lost: the tweets of an
   accepted message are held (queued or in a flush) right after intake, and
   a held tweet stops being held only in the step in which the backend's
   success answer to its batch is taken in. *)
C25_NoAcceptedTweetLost ==
  [][ /\ (arrived + 1)..arrived' \subseteq Held'
      /\ Held \ Held' \subseteq (IF ev'.op = "FLUSH_OK" THEN Serials(ev'.batch) ELSE {})
    ]_vars

\* a batch has failed twice, at fetch and at response.json(), while collection
\* was being disabled and the stats reset, and all 4 tweets are queued
C25_Witness ==
  /\ ev.op = "JSON_REJECTED"
  /\ flushes = 2
  /\ ~isEnabled
  /\ stats.tweetsCollected = 0
  /\ arrived = 4
  /\ Serials(tweetQueue) = 1..4
  /\ inflight = {}

(* C26: at most one delivery request is outstanding at any time: no flush
   is started while an earlier one awaits its response. *)
C26_OneRequestOutstanding == Cardinality(inflight) <= 1

(* C27: a batch to which the backend answered with a success status is
   never put back in the queue: none of its tweets is queued when its
   sendBatch call ends. *)
C27_AnsweredBatchNotRequeued ==
  [][ \A f \in inflight :
        (f.pc = "json" /\ f \notin inflight')
          => Serials(f.batch) \cap Serials(tweetQueue') = {}
    ]_vars

(* C28: tweetsSent never exceeds tweetsCollected, the backend reporting no
   more added tweets than the batch holds. *)
C28_SentAtMostCollected == stats.tweetsSent <= stats.tweetsCollected

(* C29: while the persisted enabled flag is false (the user has not
   re-enabled collection), no TWEETS_CAPTURED message is taken in, before
   the load callback of a lifetime as well as after it. *)
C29_PersistedDisableHolds ==
  [][ (ev'.op = "TWEETS_CAPTURED" /\ ~EnabledIn(storage))
        => tweetQueue' = tweetQueue /\ arrived' = arrived /\ inflight' = inflight
    ]_vars

(* C30: the counter updates made before the load callback are kept: after
   the callback tweetsCollected is the value that was persisted at startup
   plus what has been counted in memory since, and the persisted stats are
   the in-memory ones. *)
C30_EarlyCountsKept ==
  [][ ev'.op = "LOAD" =>
        /\ stats'.tweetsCollected =
             StatsIn(result).tweetsCollected + stats.tweetsCollected
        /\ StatsIn(storage') = stats'
    ]_vars

====
